---- MODULE Spec2Model ----
(***************************************************************************)
(* Model of bot/main.py: one batch run of the reddit -> telegram pipeline  *)
(* (load_seen, parse_subreddit_config, get_top_posts and send_post under   *)
(* retry_with_backoff, the filters of main, save_seen), repeated over      *)
(* several runs that share the seen file.                                  *)
(***************************************************************************)
EXTENDS Integers, Sequences, FiniteSets, TLC

(* ---------------- bounds of the model ---------------- *)
MaxPosts == 2        \* longest list of posts one fetch returns
MaxRuns == 2         \* number of consecutive runs of main()
MaxFaults == 3       \* calls of get_top_posts and of the sink that raise, per run
MaxList == 3         \* longest JSON array the seen file holds when looked at on its own

(* ---------------- program constants ---------------- *)
SCORE_THRESHOLD == 1000            \* default of the SCORE_THRESHOLD env var
retries == 3                       \* @retry_with_backoff(retries=3, ...)
backoff_in_seconds == 1            \* @retry_with_backoff(..., backoff_in_seconds=1)
DAY == 24 * 3600                   \* is_within_last_24h

(* ---------------- input domains ---------------- *)
Ids == {"a", "b"}
NoId == "none"                     \* d.get("id") is None or empty: falsy
CatsThreshold == SCORE_THRESHOLD \div 2
Scores == {CatsThreshold, SCORE_THRESHOLD}
Now0 == 20000 * DAY                \* time.time() when the first run starts
Fresh == Now0 - 3600
Created == {Now0 - DAY - 1, Now0 - DAY, Fresh}
Period == 60 * 60                    \* the invoker starts a run every hour
NoFault == << "none", 0 >>
Ok == << "ok", 0 >>
\* the exception object that call number i (0-based) of func raises
Fault(func, i) == << func, i >>

\* the dicts get_top_posts appends to result (fields main() reads)
Post(id, score, created_utc) == [id |-> id, score |-> score, created_utc |-> created_utc]
Candidates ==
    { Post("a", SCORE_THRESHOLD, Now0 - DAY),
      Post("a", CatsThreshold, Now0 - DAY - 1),
      Post("b", CatsThreshold, Fresh), Post("b", SCORE_THRESHOLD, Fresh),
      Post(NoId, SCORE_THRESHOLD, Fresh) }

RECURSIVE SeqsUpTo(_, _)
SeqsUpTo(S, n) ==
    IF n = 0 THEN { <<>> }
    ELSE LET shorter == SeqsUpTo(S, n - 1)
         IN  shorter \cup { Append(s, x) : s \in { t \in shorter : Len(t) = n - 1 }, x \in S }

PostLists == SeqsUpTo(Candidates, MaxPosts)

\* SUBREDDIT_LIST after split(','): each part is "name" or "name:val"; isint tells
\* whether int(val.strip()) succeeds, name "" is a name that strips to nothing
Part(name, colon, isint, val) == [name |-> name, colon |-> colon, isint |-> isint, val |-> val]
Configs ==
    { << Part("cats", TRUE, TRUE, CatsThreshold) >>,
      << Part("aww", TRUE, FALSE, 0), Part("", FALSE, FALSE, 0), Part("cats", FALSE, FALSE, 0),
         Part("", TRUE, TRUE, CatsThreshold), Part("cats", TRUE, TRUE, CatsThreshold) >> }

Range(s) == { s[k] : k \in 1..Len(s) }

(* ---------------- pure functions of main.py ---------------- *)

\* faulty variant of DictSet: a new key goes to the front
DictSet_front(m, name, thr) ==
    IF \E k \in 1..Len(m) : m[k].name = name
    THEN [k \in 1..Len(m) |-> IF m[k].name = name THEN [name |-> name, threshold |-> thr] ELSE m[k]]
    ELSE << [name |-> name, threshold |-> thr] >> \o m

\* dict assignment mapping[name] = thr on an insertion-ordered dict
DictSet(m, name, thr) ==
    IF \E k \in 1..Len(m) : m[k].name = name
    THEN [k \in 1..Len(m) |-> IF m[k].name = name THEN [name |-> name, threshold |-> thr] ELSE m[k]]
    ELSE Append(m, [name |-> name, threshold |-> thr])

RECURSIVE ParseParts(_, _, _)
ParseParts(parts, default_threshold, mapping) ==
    IF parts = <<>> THEN mapping
    ELSE LET p == Head(parts)
             thr == IF p.colon /\ p.isint THEN p.val ELSE default_threshold
         IN  IF p.name = "" /\ ~p.colon
             THEN ParseParts(Tail(parts), default_threshold, mapping)         \* if not p: continue
             ELSE IF p.name # ""
                  THEN ParseParts(Tail(parts), default_threshold, DictSet(mapping, p.name, thr))
                  ELSE ParseParts(Tail(parts), default_threshold, mapping)    \* if name: fails

parse_subreddit_config(spec, default_threshold) == ParseParts(spec, default_threshold, <<>>)

\* the seen file: missing, unparsable text, a JSON value that is no list, or a JSON array
MissingFile == [kind |-> "missing", data |-> <<>>]
CorruptFile == [kind |-> "corrupt", data |-> <<>>]
NotListFile == [kind |-> "notlist", data |-> <<>>]
ListFile(s) == [kind |-> "list", data |-> s]

\* ids a file holds (what a successful json.load of it yields as a list)
FileIds(f) == IF f.kind = "list" THEN Range(f.data) ELSE {}

\* faulty variant of load_seen: what a failed read left behind is returned
load_seen_partial(f, readable) == FileIds(f)

\* faulty variant of load_seen: the file's content is ignored
load_seen_empty(f, readable) == {}

\* load_seen: readable = FALSE is an OSError other than FileNotFoundError on open/read
load_seen(f, readable) ==
    IF f.kind = "missing" THEN {}                      \* except FileNotFoundError
    ELSE IF ~readable \/ f.kind = "corrupt" THEN {}    \* except Exception
    ELSE IF f.kind = "list" THEN Range(f.data)         \* set(data)
    ELSE {}                                            \* not isinstance(data, list)

\* list(seen): every order of the set's elements
ListsOf(S) == { s \in SeqsUpTo(S, Cardinality(S)) : Len(s) = Cardinality(S) /\ Range(s) = S }

\* faulty variant of wait_time: a linear schedule
wait_time_linear(i) == backoff_in_seconds * (2 * i + 2)

\* wait_time = backoff_in_seconds * (2 ** i), in wrapper_async and in wrapper_sync
wait_time_async(i) == backoff_in_seconds * (2 ^ i)
wait_time_sync(i) == backoff_in_seconds * (2 ^ i)

\* faulty variant of last_attempt: no attempt is the last
last_attempt_never(i) == FALSE

\* if i == retries - 1: raise
last_attempt_async(i) == i = retries - 1
last_attempt_sync(i) == i = retries - 1

\* faulty variant of is_within_last_24h: "<" for "<="
is_recent_strict(created_utc, now) == (now - created_utc) < DAY

\* is_within_last_24h, with time.time() passed as now
is_within_last_24h(created_utc, now) == (now - created_utc) <= DAY

\* faulty variant of already_seen: the membership test is dropped
already_seen_never(pid, seen) == FALSE

\* if pid in seen: continue
already_seen(pid, seen) == pid \in seen

\* faulty variant of below_threshold: "<=" for "<"
below_threshold_inclusive(score, threshold) == score <= threshold

\* if score < threshold: continue
below_threshold(score, threshold) == score < threshold

\* faulty variant of changed: save_seen is called in every run
changed_always(new_seen, seen) == TRUE

\* if new_seen != seen: (line 298)
changed(new_seen, seen) == new_seen # seen

\* faulty variant of unhandled: main catches the exception and goes on with the loop
handled_continue == "for_post"

\* an exception that leaves a wrapper meets no try in main: it ends main (and the run)
unhandled == "aborted"

\* faulty variant of add_seen: the id is not added
add_seen_nothing(new_seen, pid) == new_seen

\* new_seen.add(pid)
add_seen(new_seen, pid) == new_seen \cup {pid}

(* ---------------- media classification and the send policy ---------------- *)

\* d.get(key) of a key that is absent or null
NoUrl == "None"
\* a url value that is no str
NonStrUrl == "<42>"

\* values of d["url"] and d["url_overridden_by_dest"], and what the tests of lines
\* 143-159 give for each of them
GalleryUrls == { "https://www.reddit.com/gallery/abc", "https://i.redd.it/gallery_a.png",
                 "https://v.redd.it/gallery.webm" }
VideoUrls == { "https://v.redd.it/abc", "https://i.imgur.com/a.MP4", "https://youtu.be/a.gif",
               "https://v.redd.it/gallery.webm" }
ImageUrls == { "https://i.redd.it/a.jpg", "https://i.redd.it/gallery_a.png",
               "https://youtu.be/a.gif" }
Urls == { NoUrl, NonStrUrl, "", "https://example.com/page" }
            \cup GalleryUrls \cup VideoUrls \cup ImageUrls
Overrides == { NoUrl, "", "https://www.reddit.com/gallery/abc" }

\* url_dest and isinstance(url_dest, str)
is_url(u) == u \notin { NoUrl, "", NonStrUrl }
\* 'gallery' in url_dest or '/gallery/' in url_dest
has_gallery(u) == u \in GalleryUrls
\* url_dest.lower().endswith(('.mp4', '.mov', '.webm')) or 'v.redd.it' in url_dest or
\* 'youtube.com' in url_dest or 'youtu.be' in url_dest
has_video(u) == u \in VideoUrls
\* url_dest.lower().endswith(('.jpg', '.jpeg', '.png', '.gif', '.webp'))
has_image_ext(u) == u \in ImageUrls

\* d["preview"]: no such key, an empty images list, a first image without a source url,
\* or a first image whose source url holds an escaped ampersand
PreviewEscaped == "https://preview.redd.it/p.jpg?width=640&amp;s=1"
PreviewPlain == "https://preview.redd.it/p.jpg?width=640&s=1"
Previews == { "absent", "no_images", "no_source", PreviewEscaped }

\* images[0].get("source", {}).get("url") when images is a non-empty list
preview_src(pv) == IF pv \in { "absent", "no_images", "no_source" } THEN NoUrl ELSE pv
\* src.replace('&amp;', '&')
unescape_amp(src) == IF src = PreviewEscaped THEN PreviewPlain ELSE src

Raws ==
    [ is_gallery : BOOLEAN, is_video : BOOLEAN, url_overridden_by_dest : Overrides,
      url : Urls, preview : Previews ]
NoRaw == [ is_gallery |-> FALSE, is_video |-> FALSE, url_overridden_by_dest |-> NoUrl,
           url |-> NoUrl, preview |-> "unset" ]

Item(g, v, img) == [ is_gallery |-> g, is_video |-> v, image_url |-> img ]
NoItem == Item(FALSE, FALSE, NoUrl)
\* every dict send_post can be given
Items == [ is_gallery : BOOLEAN, is_video : BOOLEAN,
           image_url : { NoUrl, "", "https://i.redd.it/a.jpg" } ]

\* d.get("url_overridden_by_dest") or d.get("url")
url_dest(d) ==
    IF d.url_overridden_by_dest \notin { NoUrl, "" } THEN d.url_overridden_by_dest ELSE d.url

\* faulty variant of classify: the video test comes before the gallery test
classify_video_first(d) ==
    LET u == url_dest(d) IN
    IF d.is_video \/ (is_url(u) /\ has_video(u)) THEN Item(FALSE, TRUE, NoUrl)
    ELSE IF d.is_gallery \/ (is_url(u) /\ has_gallery(u)) THEN Item(TRUE, FALSE, NoUrl)
    ELSE IF is_url(u) /\ has_image_ext(u) THEN Item(FALSE, FALSE, u)
    ELSE IF preview_src(d.preview) # NoUrl
         THEN Item(FALSE, FALSE, unescape_amp(preview_src(d.preview)))
    ELSE Item(FALSE, FALSE, NoUrl)

\* get_top_posts, lines 139-167: is_gallery, is_video and image_url of one post
classify(d) ==
    LET u == url_dest(d) IN
    IF d.is_gallery \/ (is_url(u) /\ has_gallery(u)) THEN Item(TRUE, FALSE, NoUrl)
    ELSE IF d.is_video \/ (is_url(u) /\ has_video(u)) THEN Item(FALSE, TRUE, NoUrl)
    ELSE IF is_url(u) /\ has_image_ext(u) THEN Item(FALSE, FALSE, u)
    ELSE IF preview_src(d.preview) # NoUrl
         THEN Item(FALSE, FALSE, unescape_amp(preview_src(d.preview)))
    ELSE Item(FALSE, FALSE, NoUrl)

\* the bot calls of send_post
send_message == [ op |-> "send_message", photo |-> NoUrl, web_page_preview |-> "enabled" ]
send_photo(url) == [ op |-> "send_photo", photo |-> url, web_page_preview |-> "none" ]

\* faulty variant of sink_call: the image_url test comes first
sink_call_photo_first(post) ==
    IF post.image_url \notin { NoUrl, "" } THEN send_photo(post.image_url)
    ELSE send_message

\* send_post, lines 254-263: the one bot call its body makes
sink_call(post) ==
    IF post.is_video \/ post.is_gallery THEN send_message
    ELSE IF post.image_url \notin { NoUrl, "" } THEN send_photo(post.image_url)
    ELSE send_message

(* ---------------- state ---------------- *)
VARIABLES
    file,          \* content of SEEN_FILE
    subreddits,    \* SUBREDDIT_LIST, split into parts
    now,           \* time.time()
    run,           \* number of the current run of main()
    pc,            \* position of main(): start, for_sub, fetch, for_post, send, finish, done, aborted
    seen,          \* main: seen
    new_seen,      \* main: new_seen
    sub_config,    \* main: sub_config, as the ordered items of the dict
    si,            \* position of the for-loop over sub_config.items()
    posts,         \* main: posts, the part the for-loop has not gone through; its head is p
    i,             \* the wrapper's loop variable i
    wrapper,       \* the wrapper last called: "sync" (get_top_posts), "async" (send_post)
    results,       \* what each call of func by that wrapper call did: "ok" or the fault raised
    waits,         \* the time.sleep arguments of that wrapper call, in order
    raised,        \* the exception that left main(), NoFault if none
    origin,        \* the function the exception in raised came out of
    outcome,       \* what main decided for the post it handled last, and when
    trail,         \* the decisions of main for the posts of this fetch so far, in order
    attempts,      \* per id: calls of (retry-wrapped) send_post in this run
    delivered,     \* ids whose send_post call returned in this run
    fetched,       \* subreddits whose get_top_posts call returned in this run
    faults,        \* calls of get_top_posts and of the sink that raised in this run
    loadFault,     \* load_seen of this run went through "except Exception"
    saveRes,       \* save_seen of this run: none (not called), ok, fail_before, fail_mid
    fileBefore,    \* content of SEEN_FILE when this run started
    prevDelivered, \* delivered of the previous run
    prevStoreOk,   \* neither load_seen nor save_seen of the previous run faulted
    storeCalls,    \* calls of load_seen and of save_seen in this run
    raw,           \* get_top_posts: d, the data of one child of the listing
    item,          \* the dict get_top_posts makes of d, the post send_post is given
    sinkop         \* the bot calls made for item, one entry per call, in order

vars == << file, subreddits, now, run, pc, seen, new_seen, sub_config, si, posts, i,
           wrapper, results, waits, raised, origin, outcome, trail, attempts, delivered,
           fetched, faults, loadFault, saveRes, fileBefore, prevDelivered, prevStoreOk,
           storeCalls, raw, item, sinkop >>

storeVars == << file, saveRes, storeCalls >>
mediaVars == << raw, item, sinkop >>
inputVars == << subreddits, fileBefore, prevDelivered, prevStoreOk, run, mediaVars >>
runVars == << inputVars, faults >>
loopVars == << sub_config, si, posts >>
callVars == << i, wrapper, results, waits >>
histVars == << outcome, trail, attempts, delivered, fetched, loadFault >>

NoCalls == [load |-> 0, save |-> 0]
NoOutcome == [res |-> "none", at |-> 0, post |-> Post(NoId, 0, 0)]

InitFiles ==
    { MissingFile, NotListFile, ListFile(<< "a" >>), ListFile(<< "b", "a" >>) }

Init ==
    /\ file \in InitFiles
    /\ subreddits \in Configs
    /\ now = Now0
    /\ run = 1
    /\ pc = "start"
    /\ seen = {}
    /\ new_seen = {}
    /\ sub_config = <<>>
    /\ si = 0
    /\ posts = <<>>
    /\ i = 0
    /\ wrapper = "none"
    /\ results = <<>>
    /\ waits = <<>>
    /\ raised = NoFault
    /\ origin = "none"
    /\ outcome = NoOutcome
    /\ trail = <<>>
    /\ attempts = [x \in Ids |-> 0]
    /\ delivered = {}
    /\ fetched = <<>>
    /\ loadFault = FALSE
    /\ faults = 0
    /\ saveRes = "none"
    /\ fileBefore = file
    /\ prevDelivered = {}
    /\ prevStoreOk = TRUE
    /\ storeCalls = NoCalls
    /\ raw = NoRaw
    /\ item = NoItem
    /\ sinkop = <<>>

(* ---------------- main(): one run ---------------- *)

\* lines 269-273: load_seen, parse_subreddit_config, new_seen = set(seen)
Load ==
    /\ pc = "start"
    /\ \E readable \in BOOLEAN :
        /\ seen' = load_seen(file, readable)
        /\ new_seen' = load_seen(file, readable)
        /\ loadFault' = (file.kind # "missing" /\ (~readable \/ file.kind = "corrupt"))
    /\ sub_config' = parse_subreddit_config(subreddits, SCORE_THRESHOLD)
    /\ si' = 1
    /\ pc' = "for_sub"
    /\ storeCalls' = [storeCalls EXCEPT !.load = @ + 1]
    /\ UNCHANGED << file, saveRes, runVars, now, posts, callVars, raised, origin,
                    outcome, trail, attempts, delivered, fetched >>

\* line 275-277: the next (sub, threshold) item; get_top_posts is called
NextSub ==
    /\ pc = "for_sub"
    /\ si <= Len(sub_config)
    /\ pc' = "fetch"
    /\ wrapper' = "sync"
    /\ i' = 0
    /\ results' = <<>>
    /\ waits' = <<>>
    /\ UNCHANGED << storeVars, runVars, now, seen, new_seen, loopVars, raised, origin, histVars >>

\* line 275: sub_config.items() is exhausted
EndSubs ==
    /\ pc = "for_sub"
    /\ si > Len(sub_config)
    /\ pc' = "finish"
    /\ UNCHANGED << storeVars, runVars, now, seen, new_seen, loopVars, callVars, raised,
                    origin, histVars >>

\* get_top_posts returns ps to main (line 277-278)
Fetched(ps) ==
    /\ posts' = ps
    /\ outcome' = NoOutcome
    /\ trail' = <<>>
    /\ results' = Append(results, Ok)
    /\ fetched' = Append(fetched, sub_config[si].name)
    /\ pc' = "for_post"
    /\ UNCHANGED << storeVars, runVars, now, seen, new_seen, sub_config, si, i, wrapper,
                    waits, raised, origin, attempts, delivered, loadFault >>

\* wrapper_sync, one iteration: get_top_posts gets a 200 answer and parses it (lines 127-208)
FetchOk ==
    /\ pc = "fetch"
    /\ i < retries
    /\ \E ps \in PostLists : Len(ps) >= 1 /\ Fetched(ps)

\* wrapper_sync, one iteration: status_code != 200 (or no children), get_top_posts returns []
FetchEmpty ==
    /\ pc = "fetch"
    /\ i < retries
    /\ Fetched(<<>>)

\* wrapper_sync, one iteration: requests.get or r.json() raises e (lines 104-112)
FetchRaise ==
    /\ pc = "fetch"
    /\ i < retries
    /\ faults < MaxFaults
    /\ faults' = faults + 1
    /\ LET e == Fault("get_top_posts", i) IN
        /\ results' = Append(results, e)
        /\ IF last_attempt_sync(i)
           THEN /\ pc' = unhandled            \* raise
                /\ raised' = e
                /\ origin' = "get_top_posts"
                /\ UNCHANGED << now, i, waits >>
           ELSE /\ waits' = Append(waits, wait_time_sync(i))
                /\ now' = now + wait_time_sync(i)      \* time.sleep(wait_time)
                /\ i' = i + 1
                /\ UNCHANGED << pc, raised, origin >>
    /\ UNCHANGED << storeVars, inputVars, seen, new_seen, loopVars, wrapper, histVars >>

\* the post the inner for-loop is at, and its source's threshold
p == Head(posts)
threshold == sub_config[si].threshold

\* "continue" of the inner loop, recording why
Skip(why) ==
    /\ outcome' = [res |-> why, at |-> now, post |-> p]
    /\ trail' = Append(trail, why)
    /\ posts' = Tail(posts)
    /\ UNCHANGED << storeVars, runVars, now, pc, seen, new_seen, sub_config, si,
                    callVars, raised, origin, attempts, delivered, fetched, loadFault >>

\* lines 280-283
SkipNoId ==
    /\ pc = "for_post" /\ posts # <<>>
    /\ p.id = NoId
    /\ Skip("noid")

\* lines 284-286
SkipSeen ==
    /\ pc = "for_post" /\ posts # <<>>
    /\ p.id # NoId
    /\ already_seen(p.id, seen)
    /\ Skip("seen")

\* lines 287-289
SkipOld ==
    /\ pc = "for_post" /\ posts # <<>>
    /\ p.id # NoId
    /\ ~already_seen(p.id, seen)
    /\ ~is_within_last_24h(p.created_utc, now)
    /\ Skip("old")

\* lines 290-293
SkipLow ==
    /\ pc = "for_post" /\ posts # <<>>
    /\ p.id # NoId
    /\ ~already_seen(p.id, seen)
    /\ is_within_last_24h(p.created_utc, now)
    /\ below_threshold(p.score, threshold)
    /\ Skip("low")

\* lines 294-295: every filter passed, send_post is called
Send ==
    /\ pc = "for_post" /\ posts # <<>>
    /\ p.id # NoId
    /\ ~already_seen(p.id, seen)
    /\ is_within_last_24h(p.created_utc, now)
    /\ ~below_threshold(p.score, threshold)
    /\ outcome' = [res |-> "pass", at |-> now, post |-> p]
    /\ trail' = Append(trail, "pass")
    /\ attempts' = [attempts EXCEPT ![p.id] = @ + 1]
    /\ pc' = "send"
    /\ wrapper' = "async"
    /\ i' = 0
    /\ results' = <<>>
    /\ waits' = <<>>
    /\ UNCHANGED << storeVars, runVars, now, seen, new_seen, loopVars, raised, origin,
                    delivered, fetched, loadFault >>

\* wrapper_async, one iteration: send_post returns; line 296 adds the id
SendOk ==
    /\ pc = "send"
    /\ i < retries
    /\ results' = Append(results, Ok)
    /\ delivered' = delivered \cup {p.id}
    /\ new_seen' = add_seen(new_seen, p.id)
    /\ posts' = Tail(posts)
    /\ pc' = "for_post"
    /\ UNCHANGED << storeVars, runVars, now, seen, sub_config, si, i, wrapper, waits,
                    raised, origin, outcome, trail, attempts, fetched, loadFault >>

\* wrapper_async, one iteration: the sink call raises e (lines 88-96)
SendRaise ==
    /\ pc = "send"
    /\ i < retries
    /\ faults < MaxFaults
    /\ faults' = faults + 1
    /\ LET e == Fault("send_post", i) IN
        /\ results' = Append(results, e)
        /\ IF last_attempt_async(i)
           THEN /\ pc' = unhandled            \* raise
                /\ raised' = e
                /\ origin' = "send_post"
                /\ UNCHANGED << now, i, waits >>
           ELSE /\ waits' = Append(waits, wait_time_async(i))
                /\ now' = now + wait_time_async(i)     \* time.sleep(wait_time)
                /\ i' = i + 1
                /\ UNCHANGED << pc, raised, origin >>
    /\ UNCHANGED << storeVars, inputVars, seen, new_seen, loopVars, wrapper, histVars >>

\* line 279: posts is exhausted, back to the outer loop
EndPosts ==
    /\ pc = "for_post"
    /\ posts = <<>>
    /\ si' = si + 1
    /\ pc' = "for_sub"
    /\ outcome' = NoOutcome
    /\ trail' = <<>>
    /\ UNCHANGED << storeVars, runVars, now, seen, new_seen, sub_config, posts, callVars,
                    raised, origin, attempts, delivered, fetched, loadFault >>

\* line 298: nothing new, save_seen is not called
NoSave ==
    /\ pc = "finish"
    /\ ~changed(new_seen, seen)
    /\ pc' = "done"
    /\ UNCHANGED << storeVars, runVars, now, seen, new_seen, loopVars, callVars, raised,
                    origin, histVars >>

\* save_seen(SEEN_FILE, new_seen) ends in state f of the file with result r
Saved(f, r) ==
    /\ pc = "finish"
    /\ changed(new_seen, seen)
    /\ file' = f
    /\ saveRes' = r
    /\ storeCalls' = [storeCalls EXCEPT !.save = @ + 1]
    /\ pc' = "done"
    /\ UNCHANGED << runVars, now, seen, new_seen, loopVars, callVars, raised, origin, histVars >>

\* lines 70-72 all succeed: the file is json.dump(list(seen))
SaveOk ==
    \E s \in ListsOf(new_seen) : Saved(ListFile(s), "ok")

\* os.makedirs or open raises: logged, the file is as it was
SaveFailBefore ==
    Saved(file, "fail_before")

\* open(path, 'w') truncated the file and the write raises: logged, the file is cut short
SaveFailMid ==
    Saved(CorruptFile, "fail_mid")

\* the periodic invoker starts main() again
NextRun ==
    /\ pc \in {"done", "aborted"}
    /\ run < MaxRuns
    /\ run' = run + 1
    /\ pc' = "start"
    /\ fileBefore' = file
    /\ prevDelivered' = delivered
    /\ prevStoreOk' = (~loadFault /\ saveRes \in {"none", "ok"})
    /\ seen' = {}
    /\ new_seen' = {}
    /\ sub_config' = <<>>
    /\ si' = 0
    /\ posts' = <<>>
    /\ i' = 0
    /\ wrapper' = "none"
    /\ results' = <<>>
    /\ waits' = <<>>
    /\ raised' = NoFault
    /\ origin' = "none"
    /\ outcome' = NoOutcome
    /\ trail' = <<>>
    /\ attempts' = [x \in Ids |-> 0]
    /\ delivered' = {}
    /\ fetched' = <<>>
    /\ loadFault' = FALSE
    /\ faults' = 0
    /\ saveRes' = "none"
    /\ storeCalls' = NoCalls
    /\ now' = Now0 + run * Period
    /\ UNCHANGED << file, subreddits, mediaVars >>

Next ==
    \/ Load
    \/ NextSub
    \/ EndSubs
    \/ FetchOk
    \/ FetchEmpty
    \/ FetchRaise
    \/ SkipNoId
    \/ SkipSeen
    \/ SkipOld
    \/ SkipLow
    \/ Send
    \/ SendOk
    \/ SendRaise
    \/ EndPosts
    \/ NoSave
    \/ SaveOk
    \/ SaveFailBefore
    \/ SaveFailMid
    \/ NextRun

Spec == Init /\ [][Next]_vars

\* main runs on: every statement it reaches is executed, every call returns or raises
\* (requests.get has timeout=15, time.sleep and asyncio.sleep are finite)
LiveSpec == Init /\ [][Next]_vars /\ WF_vars(Next)

(* ---------------- the seen store on its own: save_seen and load_seen ---------------- *)

\* what is not part of a call of one function on its own
Idle ==
    /\ subreddits = << >>
    /\ now = Now0
    /\ run = 1
    /\ sub_config = <<>>
    /\ si = 0
    /\ posts = <<>>
    /\ wrapper = "none"
    /\ results = <<>>
    /\ waits = <<>>
    /\ raised = NoFault
    /\ origin = "none"
    /\ outcome = NoOutcome
    /\ trail = <<>>
    /\ attempts = [x \in Ids |-> 0]
    /\ delivered = {}
    /\ fetched = <<>>
    /\ loadFault = FALSE
    /\ faults = 0
    /\ saveRes = "none"
    /\ prevDelivered = {}
    /\ prevStoreOk = TRUE
    /\ storeCalls = NoCalls

idleVars == << subreddits, now, run, sub_config, si, posts, wrapper, results, waits, raised,
               origin, outcome, trail, attempts, delivered, fetched, loadFault, faults,
               saveRes, prevDelivered, prevStoreOk >>

StoreIds == { "a", "b", "c" }
StoreFiles ==
    { MissingFile, CorruptFile, NotListFile } \cup { ListFile(s) : s \in SeqsUpTo(StoreIds, MaxList) }

\* save_seen when lines 69-72 all succeed: the files json.dump(list(seen)) can write
save_seen(S) == { ListFile(s) : s \in ListsOf(S) }

\* a set new_seen of ids in memory and a file on disk
InitStore ==
    /\ Idle
    /\ pc = "store"
    /\ file \in StoreFiles
    /\ fileBefore = file
    /\ new_seen \in SUBSET StoreIds
    /\ seen = {}
    /\ i = 0
    /\ raw = NoRaw /\ item = NoItem /\ sinkop = <<>>

\* save_seen(path, new_seen)
PersistSet ==
    /\ pc = "store"
    /\ file' \in save_seen(new_seen)
    /\ storeCalls' = [storeCalls EXCEPT !.save = @ + 1]
    /\ pc' = "persisted"
    /\ UNCHANGED << idleVars, fileBefore, seen, new_seen, i, mediaVars >>

\* load_seen(path) of the file just written
LoadBack ==
    /\ pc = "persisted"
    /\ seen' = load_seen(file, TRUE)
    /\ storeCalls' = [storeCalls EXCEPT !.load = @ + 1]
    /\ pc' = "loaded_back"
    /\ UNCHANGED << idleVars, file, fileBefore, new_seen, i, mediaVars >>

\* load_seen(path) of the file on disk
LoadFile ==
    /\ pc = "store"
    /\ seen' = load_seen(file, TRUE)
    /\ storeCalls' = [storeCalls EXCEPT !.load = @ + 1]
    /\ pc' = "loaded"
    /\ UNCHANGED << idleVars, file, fileBefore, new_seen, i, mediaVars >>

\* save_seen(path, seen) of the set just loaded
PersistLoaded ==
    /\ pc = "loaded"
    /\ file' \in save_seen(seen)
    /\ storeCalls' = [storeCalls EXCEPT !.save = @ + 1]
    /\ pc' = "persisted_back"
    /\ UNCHANGED << idleVars, fileBefore, seen, new_seen, i, mediaVars >>

NextStore == PersistSet \/ LoadBack \/ LoadFile \/ PersistLoaded

SpecStore == InitStore /\ [][NextStore]_vars

(* ---------------- one post on its own: classification and send_post ---------------- *)

\* a child d of the listing before get_top_posts looked at it, or a dict handed to
\* send_post
InitMedia ==
    /\ Idle
    /\ file = MissingFile /\ fileBefore = file
    /\ seen = {} /\ new_seen = {}
    /\ i = 0
    /\ sinkop = <<>>
    /\ \/ pc = "classify" /\ raw \in Raws /\ item = NoItem
       \/ pc = "item" /\ raw = NoRaw /\ item \in Items

\* get_top_posts, lines 136-167 and 194-207, for one child
Classify ==
    /\ pc = "classify"
    /\ item' = classify(raw)
    /\ pc' = "item"
    /\ UNCHANGED << idleVars, file, fileBefore, seen, new_seen, storeCalls, i, raw, sinkop >>

\* one call of send_post's body by wrapper_async: its bot call is made and returns or
\* raises
SinkCall(ok) ==
    /\ pc = "item"
    /\ i < retries
    /\ sinkop' = Append(sinkop, sink_call(item))
    /\ i' = i + 1
    /\ pc' = IF ok THEN "sent" ELSE IF last_attempt_async(i) THEN "failed" ELSE "item"
    /\ UNCHANGED << idleVars, file, fileBefore, seen, new_seen, storeCalls, raw, item >>

SinkReturns == SinkCall(TRUE)
SinkRaises == SinkCall(FALSE)

NextMedia == Classify \/ SinkReturns \/ SinkRaises

SpecMedia == InitMedia /\ [][NextMedia]_vars

(* ---------------- claims ---------------- *)

\* C1: a candidate whose id is in the set loaded at run start is never passed to
\* send_post in that run, whatever its score and creation time.
C1_SeenNeverSent ==
    /\ \A id \in seen : attempts[id] = 0
    /\ pc = "send" => p.id \notin seen

\* C1 witness: a post that is recent and above the threshold was skipped as already seen
C1_Witness ==
    /\ outcome.res = "seen"
    /\ outcome.post.id \in seen
    /\ outcome.post.score >= threshold
    /\ (outcome.at - outcome.post.created_utc) <= DAY

\* a post that passes the three filters of main at time t
Eligible(post, t) ==
    /\ post.id # NoId
    /\ post.id \notin seen
    /\ (t - post.created_utc) <= DAY
    /\ post.score >= threshold

\* C2 (as claimed): in every run send_post is called exactly once for every id carried by
\* a fetched post that is new, recent and above the threshold: never twice, and by the
\* end of the run not zero times.
C2_ExactlyOncePerRun ==
    /\ \A id \in Ids : attempts[id] <= 1
    /\ pc \in {"done", "aborted"} =>
          \A k \in 1..Len(posts) : Eligible(posts[k], now) => attempts[posts[k].id] = 1

\* C3 (as claimed, for runs whose load_seen and save_seen did not fault): the second of
\* two consecutive runs delivers no id that the first run delivered.
C3_NoRedelivery ==
    (run >= 2 /\ prevStoreOk /\ ~loadFault) => delivered \cap prevDelivered = {}

\* C4 (as claimed): when a run that delivered a new id is then aborted by a send_post
\* call that exhausted its retries, the file holds the ids delivered so far.
C4_PersistedOnAbort ==
    (pc = "aborted" /\ origin = "send_post" /\ delivered # {}) => delivered \subseteq FileIds(file)

\* C5 (as claimed): a fault of get_top_posts never reaches main: no run is aborted by it.
C5_FetchFaultContained ==
    ~(pc = "aborted" /\ origin = "get_top_posts")

\* C6: at every point of a run new_seen is the loaded set plus exactly the ids whose
\* send_post call returned in this run; a post that was skipped, or whose send_post call
\* raised, adds nothing.
C6_NewSeenIsSeenPlusDelivered ==
    /\ new_seen = seen \cup delivered
    /\ (pc = "aborted" /\ origin = "send_post" /\ p.id \notin delivered) => p.id \notin new_seen \ seen

\* C6 witness: one id was delivered and added, the next post exhausted its retries and
\* its id was not added
C6_Witness ==
    /\ pc = "aborted"
    /\ origin = "send_post"
    /\ delivered # {}
    /\ delivered \subseteq new_seen
    /\ p.id \notin new_seen

\* C7 (as claimed): every id the file held when a run started is in the file at every
\* later point of that run, whatever load_seen and save_seen did.
C7_NeverRemoved ==
    FileIds(fileBefore) \subseteq FileIds(file)

\* C7 (amended): every id the file held when a run started is still in the file after the
\* run, provided load_seen read the file without a fault and save_seen, if called, did
\* not fail after truncating the file.
C7_KeptWhenStoreSound ==
    (~loadFault /\ saveRes # "fail_mid") => FileIds(fileBefore) \subseteq FileIds(file)

\* C7 witness: a run loaded a non-empty list, delivered a new id and saved the larger list
C7_Witness ==
    /\ pc = "done"
    /\ ~loadFault
    /\ saveRes = "ok"
    /\ FileIds(fileBefore) # {}
    /\ FileIds(fileBefore) \subseteq FileIds(file)
    /\ FileIds(file) # FileIds(fileBefore)

\* C8: a post goes past the recency filter only if now - created_utc <= 24h when it is
\* filtered, and is skipped as old only if it is strictly older: a post exactly 24h old
\* is still eligible.
C8_Recency ==
    /\ outcome.res \in {"low", "pass"} => (outcome.at - outcome.post.created_utc) <= DAY
    /\ outcome.res = "old" => (outcome.at - outcome.post.created_utc) > DAY
    /\ pc = "send" => (outcome.res = "pass" /\ outcome.post = p)

\* C8 witness: in one fetch a post one second over 24h was skipped and a post exactly
\* 24h old is being sent
C8_Witness ==
    /\ trail = << "old", "pass" >>
    /\ pc = "send"
    /\ (outcome.at - outcome.post.created_utc) = DAY

\* C9, state part: a post is sent only with score >= its source's threshold and skipped
\* as low only with score < threshold; once the loop moves on from a sent post its id
\* is delivered and in new_seen.
C9_Inv ==
    /\ outcome.res = "pass" => outcome.post.score >= threshold
    /\ outcome.res = "low" => (outcome.post.score < threshold /\ pc = "for_post")
    /\ (pc = "for_post" /\ outcome.res = "pass") => outcome.post.id \in delivered \cap new_seen

\* C9, step part: skipping a post as low calls nothing and adds nothing
C9_Step ==
    (trail' = Append(trail, "low")) => UNCHANGED << new_seen, attempts, delivered, pc >>

\* C9: a post is delivered only if its score is >= the threshold of its source (equal
\* passes); a post below it is skipped, never sent, its id not added, and the posts of
\* the same fetch after it are still handled.
C9_Threshold ==
    []C9_Inv /\ [][C9_Step]_vars

\* C9 witness: in one fetch a post below the threshold was skipped and the next one, at
\* the threshold, was delivered and added
C9_Witness ==
    /\ trail = << "low", "pass" >>
    /\ pc = "for_post"
    /\ outcome.post.score = threshold
    /\ outcome.post.id \in new_seen \ seen

\* C10: a retry-wrapped function is called at most retries times and never after its
\* first success; after failure number i (0-based, i < retries - 1) the wrapper sleeps
\* backoff_in_seconds * 2^i; after the last failure it sleeps no more and the caller gets
\* that call's exception itself. The same for wrapper_sync and wrapper_async.
C10_RetryPolicy ==
    LET n == Len(results) IN
    /\ n <= retries
    /\ \A k \in 1..(n - 1) : results[k] # Ok
    /\ \A k \in 1..Len(waits) : waits[k] = backoff_in_seconds * (2 ^ (k - 1))
    /\ Len(waits) = (IF n > 0 /\ results[n] = Ok THEN n - 1
                     ELSE IF n < retries THEN n ELSE retries - 1)
    /\ (n = retries /\ results[n] # Ok) =>
           (pc = "aborted" /\ raised = results[n] /\ raised[2] = retries - 1)
    /\ raised # NoFault => (n = retries /\ raised = results[n])

\* C10 witness: send_post failed three times: two sleeps of 1 and 2, then the third
\* exception left the wrapper
C10_Witness ==
    /\ wrapper = "async"
    /\ pc = "aborted"
    /\ waits = << backoff_in_seconds, 2 * backoff_in_seconds >>
    /\ raised = Fault("send_post", retries - 1)

\* the state right after send_post returned: line 296 has run, the loop is at its next post
JustSent == pc = "for_post" /\ outcome.res = "pass"

\* C11: when send_post fails on its first k-1 calls and returns on call k <= retries, the
\* sink call returned for the post exactly once, the wrapper slept exactly k-1 times
\* (1, then 2 times backoff_in_seconds), the id is in new_seen, and main goes on with the
\* next post of the same subreddit.
C11_RetryThenDeliver ==
    JustSent =>
        LET k == Len(results) IN
        /\ wrapper = "async"
        /\ k \in 1..retries
        /\ \A j \in 1..(k - 1) : results[j] = Fault("send_post", j - 1)
        /\ Cardinality({ j \in 1..k : results[j] = Ok }) = 1
        /\ results[k] = Ok
        /\ waits = [j \in 1..(k - 1) |-> backoff_in_seconds * (2 ^ (j - 1))]
        /\ outcome.post.id \in new_seen
        /\ outcome.post.id \in delivered
        /\ raised = NoFault

\* C11 witness: the third call of send_post returned, after sleeps of 1 and 2, and the
\* listing has a further post
C11_Witness ==
    /\ JustSent
    /\ results = << Fault("send_post", 0), Fault("send_post", 1), Ok >>
    /\ waits = << backoff_in_seconds, 2 * backoff_in_seconds >>
    /\ outcome.post.id \in new_seen \ seen
    /\ posts # <<>>

C12_Inv ==
    /\ (wrapper = "async" /\ Len(results) = retries /\ results[retries] # Ok) =>
           (pc = "aborted" /\ origin = "send_post" /\ raised = results[retries])
    /\ (pc = "aborted" /\ origin = "send_post") =>
           /\ posts # <<>>
           /\ outcome.res = "pass" /\ outcome.post = p
           /\ p.id \in new_seen => p.id \in delivered
           /\ Len(fetched) = si
           /\ saveRes = "none"

C12_Step ==
    /\ (pc = "send" /\ pc' = "aborted") =>
           UNCHANGED << new_seen, delivered, posts, si, fetched, attempts, trail, file >>
    /\ pc = "aborted" =>
           (run' = run + 1 /\ pc' = "start" /\ file' = file)

\* C12: when send_post fails retries times, the exception leaves main: the post stays at
\* the head of its listing and no later post of the listing is filtered or sent, no later
\* subreddit is fetched, nothing is saved, and the id of the failed post is not added to
\* new_seen; the next thing that happens is the next run.
C12_DeliveryFaultAborts == []C12_Inv /\ [][C12_Step]_vars

\* C12 witness: send_post exhausted its retries on a post that has a later post in the
\* same listing and a later subreddit in the configuration
C12_Witness ==
    /\ pc = "aborted" /\ origin = "send_post"
    /\ Len(posts) >= 2
    /\ si < Len(sub_config)
    /\ p.id \notin new_seen
    /\ Len(fetched) = si

\* C13: in every run load_seen is called exactly once, as the first step; save_seen is
\* called at most once, as the last step of a run that reached the end of the loop, and
\* only if new_seen != seen; the file changes in no other step, so a run that delivers
\* nothing leaves the file as it was.
C13_LoadOnceSaveAtMostOnce ==
    /\ storeCalls.load = (IF pc = "start" THEN 0 ELSE 1)
    /\ storeCalls.save <= 1
    /\ storeCalls.save = 1 => (pc = "done" /\ new_seen # seen)
    /\ storeCalls.save = 0 => file = fileBefore
    /\ delivered = {} => (storeCalls.save = 0 /\ file = fileBefore)

\* C13 witness: a run ended without a delivery and without a call of save_seen, over a
\* file that holds ids
C13_Witness ==
    /\ pc = "done"
    /\ storeCalls = [load |-> 1, save |-> 0]
    /\ delivered = {}
    /\ fetched # <<>>
    /\ FileIds(file) # {}
    /\ file = fileBefore

LastSink == sinkop[Len(sinkop)]

\* C15: send_post calls send_photo if and only if the post is neither video nor gallery
\* and has an image_url, and then with that url; every video or gallery post and every
\* post without image_url goes out by send_message with the link preview enabled, so a
\* gallery post is never uploaded as a photo. Every call of send_post's body makes
\* exactly one bot call, whether that call returns or raises.
C15_SendPolicy ==
    /\ Len(sinkop) = i
    /\ sinkop # <<>> =>
           /\ LastSink.op \in { "send_photo", "send_message" }
           /\ LastSink.op = "send_photo" <=>
                  (~item.is_video /\ ~item.is_gallery /\ item.image_url \notin { NoUrl, "" })
           /\ LastSink.op = "send_photo" => LastSink.photo = item.image_url
           /\ (item.is_video \/ item.is_gallery \/ item.image_url \in { NoUrl, "" }) =>
                  (LastSink.op = "send_message" /\ LastSink.web_page_preview = "enabled")
           /\ \A k \in 1..Len(sinkop) : sinkop[k] = LastSink
    /\ pc = "sent" => i \in 1..retries
    /\ pc = "failed" => i = retries

\* C15 witness: a post that get_top_posts classified as gallery from the marker in its
\* url, with an image extension in the same url, went out by send_message on the second
\* call of send_post
C15_Witness ==
    /\ pc = "sent"
    /\ ~raw.is_gallery /\ has_gallery(url_dest(raw)) /\ has_image_ext(url_dest(raw))
    /\ item.is_gallery
    /\ sinkop = << send_message, send_message >>

\* the indicators of a child d, each looked at on its own
GalleryIndicator(d) == d.is_gallery \/ (is_url(url_dest(d)) /\ has_gallery(url_dest(d)))
VideoIndicator(d) == d.is_video \/ (is_url(url_dest(d)) /\ has_video(url_dest(d)))
ImageExtIndicator(d) == is_url(url_dest(d)) /\ has_image_ext(url_dest(d))
PreviewIndicator(d) == d.preview \notin { "absent", "no_images", "no_source" }

\* the kinds a classified post is of
KindsOf(post) ==
    { k \in { "gallery", "video", "image" } :
        \/ k = "gallery" /\ post.is_gallery
        \/ k = "video" /\ post.is_video
        \/ k = "image" /\ post.image_url \notin { NoUrl, "" } }

\* C19: get_top_posts gives every post exactly one kind, by the first indicator that
\* holds in the order gallery, video, image by extension, image from the preview, none:
\* a post with a gallery and a video indicator is gallery, and at most one of
\* is_gallery, is_video and a non-empty image_url holds in the dict it returns.
C19_Classification ==
    (pc # "classify" /\ raw # NoRaw) =>
        /\ Cardinality(KindsOf(item)) <= 1
        /\ GalleryIndicator(raw) <=> KindsOf(item) = { "gallery" }
        /\ (~GalleryIndicator(raw) /\ VideoIndicator(raw)) <=> KindsOf(item) = { "video" }
        /\ (~GalleryIndicator(raw) /\ ~VideoIndicator(raw)
               /\ (ImageExtIndicator(raw) \/ PreviewIndicator(raw)))
             <=> KindsOf(item) = { "image" }
        /\ (KindsOf(item) = { "image" } /\ ImageExtIndicator(raw)) =>
               item.image_url = url_dest(raw)
        /\ (KindsOf(item) = { "image" } /\ ~ImageExtIndicator(raw)) =>
               item.image_url = PreviewPlain
        /\ KindsOf(item) = {} =>
               ~(GalleryIndicator(raw) \/ VideoIndicator(raw) \/ ImageExtIndicator(raw)
                   \/ PreviewIndicator(raw))

\* C19 witness: a child flagged is_video whose url holds the gallery marker and an image
\* extension, with a preview image, came out as gallery and nothing else
C19_Witness ==
    /\ pc = "item"
    /\ raw.is_video /\ ~raw.is_gallery
    /\ has_gallery(url_dest(raw)) /\ has_image_ext(url_dest(raw))
    /\ raw.preview = PreviewEscaped
    /\ item = Item(TRUE, FALSE, NoUrl)

\* the filters of main, each looked at on its own, for the post of the latest decision
FailsDedup == outcome.post.id \in seen
FailsRecency == (outcome.at - outcome.post.created_utc) > DAY
FailsThreshold == outcome.post.score < threshold

\* C16: main tests each post for membership in seen, then for recency, then against the
\* threshold, and skips it at the first test it fails: a post that fails several is
\* logged and skipped for the first of them in that order. A skip is a continue: the
\* loop goes on with the next post of the same listing and nothing else changes.
C16_FilterOrder ==
    /\ (outcome.res \notin { "none", "noid" }) =>
           /\ outcome.res = "seen" <=> FailsDedup
           /\ outcome.res = "old" <=> (~FailsDedup /\ FailsRecency)
           /\ outcome.res = "low" <=> (~FailsDedup /\ ~FailsRecency /\ FailsThreshold)
           /\ outcome.res = "pass" <=> (~FailsDedup /\ ~FailsRecency /\ ~FailsThreshold)
    /\ outcome.res \in { "seen", "old", "low" } =>
           /\ pc = "for_post" /\ raised = NoFault
           /\ trail[Len(trail)] = outcome.res
           /\ Len(trail) + Len(posts) <= MaxPosts
           /\ outcome.post.id \in new_seen => outcome.post.id \in seen \cup delivered

\* C16 witness: the second post of a listing is in seen, older than 24 hours and below
\* the threshold; it was skipped as seen, after the first post had been skipped too
C16_Witness ==
    /\ pc = "for_post"
    /\ Len(trail) = 2 /\ trail[1] \in { "old", "low" }
    /\ outcome.res = "seen"
    /\ FailsDedup /\ FailsRecency /\ FailsThreshold

\* position in SUBREDDIT_LIST of the first part that names subreddit n
FirstPart(n) ==
    CHOOSE k \in 1..Len(subreddits) :
        /\ subreddits[k].name = n
        /\ \A j \in 1..(k - 1) : subreddits[j].name # n

\* position of main in the candidates of the run: subreddit, then place in its listing
Position == << si, Len(trail) >>
Before(a, b) == a[1] < b[1] \/ (a[1] = b[1] /\ a[2] < b[2])

C17_Inv ==
    pc # "start" =>
        /\ { sub_config[k].name : k \in 1..Len(sub_config) }
               = { subreddits[k].name : k \in 1..Len(subreddits) } \ { "" }
        /\ \A a, b \in 1..Len(sub_config) :
               a < b => FirstPart(sub_config[a].name) < FirstPart(sub_config[b].name)
        /\ Len(fetched) <= Len(sub_config)
        /\ \A k \in 1..Len(fetched) : fetched[k] = sub_config[k].name
        /\ pc \in { "for_sub", "fetch", "finish", "done" } => posts = <<>>
        /\ pc = "fetch" => Len(fetched) = si - 1
        /\ (pc = "for_post" /\ wrapper = "async") =>
               (results # <<>> /\ results[Len(results)] = Ok)

C17_Step ==
    run' = run =>
        /\ fetched' # fetched =>
               (pc = "fetch" /\ posts = <<>> /\ fetched' = Append(fetched, sub_config[si].name))
        /\ si' # si => (si' = si + 1 /\ posts = <<>> /\ pc \in { "start", "for_post" })
        /\ (posts' # posts /\ pc # "fetch") => posts' = Tail(posts)
        /\ (pc' = "send" /\ pc # "send") =>
               /\ pc = "for_post"
               /\ outcome'.post = Head(posts)
               /\ Before(Position, Position')
               /\ wrapper = "async" => results[Len(results)] = Ok
        /\ (pc = "send" /\ pc' # "send") =>
               \/ pc' = "for_post" /\ results'[Len(results')] = Ok
               \/ pc' = "aborted"

\* C17: strict sequential order. sub_config lists the subreddits in the order in which
\* SUBREDDIT_LIST first names them and main fetches them in that order, one at a time,
\* the next one only when the listing of the one before is used up; within a listing
\* the posts are taken from the front, so send_post is called in the order (subreddit,
\* place in the listing); and send_post is called for a post only after the call for
\* the post before has returned.
C17_SequentialOrder == []C17_Inv /\ [][C17_Step]_vars

\* C17 witness: the second subreddit of a list of two is at its second post, which is
\* being sent, after a delivery earlier in the run
C17_Witness ==
    /\ pc = "send"
    /\ si = 2 /\ Len(sub_config) = 2
    /\ fetched = << sub_config[1].name, sub_config[2].name >>
    /\ Position = << 2, 2 >>
    /\ delivered # {}

\* C18: no fault of the seen store ends a run. load_seen of a missing, unreadable or
\* unparsable file returns the empty set and main goes on to the loop; save_seen that
\* fails, before or after it truncated the file, is logged and main ends as it does
\* after a save that worked, with the deliveries of the run as they were. A run is
\* aborted only by an exception of get_top_posts or of send_post.
C18_StoreFaultsContained ==
    /\ (pc # "start" /\ (loadFault \/ fileBefore.kind \in { "missing", "corrupt" })) =>
           seen = {}
    /\ pc = "aborted" => (origin \in { "get_top_posts", "send_post" } /\ saveRes = "none")
    /\ saveRes \in { "fail_before", "fail_mid" } =>
           /\ pc = "done" /\ raised = NoFault
           /\ delivered # {} /\ delivered \subseteq new_seen
           /\ \A id \in delivered : attempts[id] >= 1
    /\ pc \in { "for_sub", "fetch", "for_post", "send", "finish", "done" } =>
           (raised = NoFault /\ storeCalls.load = 1)

\* C18 witness: a run whose load_seen faulted on a file that held ids fetched, delivered
\* and reached its end although save_seen then failed too
C18_Witness ==
    /\ pc = "done"
    /\ loadFault /\ FileIds(fileBefore) # {}
    /\ saveRes = "fail_mid"
    /\ delivered # {} /\ fetched # <<>>

C20_Inv ==
    /\ i < retries
    /\ Len(results) <= retries
    /\ Len(waits) <= retries - 1
    /\ pc \in { "fetch", "send" } => Len(results) = i
    /\ Len(trail) <= MaxPosts
    /\ pc = "for_post" => Len(trail) + Len(posts) <= MaxPosts
    /\ Len(fetched) <= Len(sub_config)

C20_Step ==
    run' = run =>
        /\ si' >= si
        /\ (si' = si /\ pc # "fetch") => Len(posts') <= Len(posts)
        /\ (si' = si /\ pc = pc' /\ pc \in { "fetch", "send" }) => i' = i + 1
        /\ (si' = si /\ pc = "for_post" /\ pc' = "for_post") => posts' = Tail(posts)

\* C20: every run of main ends, at line 300 or by an exception that left main. Each
\* call of get_top_posts and of send_post is tried at most retries = 3 times, the posts
\* of a listing are taken one by one and none is taken twice, the subreddits are taken
\* one by one; so after finitely many steps the run is done or aborted, whichever calls
\* fault.
C20_RunTerminates ==
    /\ []C20_Inv
    /\ [][C20_Step]_vars
    /\ \A r \in 1..MaxRuns : [](run = r => <>(run = r /\ pc \in { "done", "aborted" }))

\* C20 witness: a run reached its end after calls that raised and a delivery that took
\* all three tries
C20_Witness ==
    /\ pc = "done"
    /\ faults >= 2
    /\ wrapper = "async" /\ Len(results) = retries
    /\ delivered # {}

====
